---------------------------- MODULE Spec2Model ----------------------------
(***************************************************************************)
(* glium-glyph: the adapter between the glyph_brush layout engine and the  *)
(* glium OpenGL backend.  The model covers                                 *)
(*   - to_vertex (src/src/lib.rs:69-132), the pure vertex adapter, with    *)
(*     f32 arithmetic modelled by exact rational arithmetic;               *)
(*   - GlyphBrushBuilder (src/src/builder.rs) and GlyphBrush::new;         *)
(*   - GlyphBrush::queue / queue_custom_layout / fonts / add_font /        *)
(*     add_font_bytes, which delegate to the layout engine;                *)
(*   - GlyphBrush::draw_queued_with_transform (src/src/lib.rs:324-385),    *)
(*     one action per statement that touches the brush or the backend.     *)
(* The layout engine (glyph_brush) and the graphics backend (glium) are    *)
(* external: the engine's answers and the backend's failures are           *)
(* nondeterministic choices made in the step that calls them.              *)
(***************************************************************************)
EXTENDS Integers, Sequences, FiniteSets, TLC

VARIABLES
    pc,            \* position of the caller / of the draw invocation
    builder,       \* GlyphBrushBuilder { inner, params } while building
    engine,        \* glyph_brush::GlyphBrush: tracked atlas dims, fonts, queue
    texture,       \* GlyphBrush.texture: dimensions and uploaded regions
    params,        \* GlyphBrush.params: the draw state
    verts,         \* GlyphBrush.verts: the stored vertex data
    brush_action,  \* local brush_action: the engine's last answer in this invocation
    vertex_buffer, \* local vertex_buffer (per-instance data of this draw)
    drawCalls,     \* draw commands issued by the current/last invocation
    drawn,         \* per-instance data and draw state the last issued draw command used
    retries,       \* reallocations of the current/last invocation (saturating)
    lastSuggested, \* last size the engine suggested in this invocation
    noQueueSince,  \* the invocation began with no queue call since the last draw
    fault,         \* the backend operation that failed, if any
    uploaded,      \* regions written to the current texture by this invocation
    override,      \* the draw state last handed to GlyphBrushBuilder::params, if any
    glyph,         \* input of to_vertex (vertex adapter specification)
    vertex         \* output of to_vertex (vertex adapter specification)

vars == <<pc, builder, engine, texture, params, verts, brush_action,
          vertex_buffer, drawCalls, drawn, retries, lastSuggested,
          noQueueSince, fault, uploaded, override, glyph, vertex>>

---------------------------------------------------------------------------
(* Bounds of the model.                                                    *)

\* atlas widths and heights range over 1..MaxDim (units of the initial size)
MaxDim == 2
\* the engine hands back at most MaxVerts vertices per frame
MaxVerts == 1
\* the engine's font list holds at most MaxFonts fonts
MaxFonts == 2
\* atlas regions the engine may upload are numbered 1..MaxRects
MaxRects == 1
\* the count of reallocations of one invocation saturates at MaxRetries
MaxRetries == 2
\* pixel and clip coordinates of the vertex adapter range over 0..MaxCoord
MaxCoord == 3

\* absent values, one per shape so that they compare with present ones
None == "none"
Null == [null |-> TRUE]
NoAction == [kind |-> "none"]
NoDims == <<>>
NoDraw == [done |-> FALSE, verts |-> <<>>, params |-> Null]

---------------------------------------------------------------------------
(* Exact rational arithmetic standing in for f32: <<n, d>> with d > 0 and  *)
(* gcd(n, d) = 1, so that equal numbers are equal values.                  *)

Abs(i) == IF i < 0 THEN -i ELSE i

RECURSIVE Gcd(_, _)
Gcd(a, b) == IF b = 0 THEN a ELSE Gcd(b, a % b)

RNorm(n, d) ==
    LET s == IF d < 0 THEN -1 ELSE 1
        g == Gcd(Abs(n), Abs(d))
    IN  <<(s * n) \div g, (s * d) \div g>>

R(i) == <<i, 1>>
RHalf == <<1, 2>>
RAdd(a, b) == RNorm(a[1] * b[2] + b[1] * a[2], a[2] * b[2])
RSub(a, b) == RNorm(a[1] * b[2] - b[1] * a[2], a[2] * b[2])
RMul(a, b) == RNorm(a[1] * b[1], a[2] * b[2])
RDiv(a, b) == RNorm(a[1] * b[2], a[2] * b[1])
RLt(a, b) == a[1] * b[2] < b[1] * a[2]
RGt(a, b) == RLt(b, a)

\* rusttype::Rect { min, max }, width() = max.x - min.x, height() = max.y - min.y
Rect(minx, miny, maxx, maxy) ==
    [min |-> [x |-> minx, y |-> miny], max |-> [x |-> maxx, y |-> maxy]]
width(r) == RSub(r.max.x, r.min.x)
height(r) == RSub(r.max.y, r.min.y)

---------------------------------------------------------------------------
(* to_vertex, src/src/lib.rs:69-132.                                       *)
(* A glyph is glyph_brush::GlyphVertex { tex_coords, pixel_coords, bounds, *)
(* screen_dimensions, color, z }; pixel_coords is an integer rectangle     *)
(* cast to f32, the other rectangles are f32.                              *)

\* 2.0 * (x / screen_w - 0.5), lines 81, 85, 92, 96
gl_x(x, screen_w) == RMul(R(2), RSub(RDiv(x, R(screen_w)), RHalf))
\* 2.0 * (0.5 - y / screen_h), lines 82, 86, 93, 97
gl_y(y, screen_h) == RMul(R(2), RSub(RHalf, RDiv(y, R(screen_h))))

\* lines 79-88
gl_bounds_of(g) ==
    LET sw == g.screen_dimensions[1]
        sh == g.screen_dimensions[2]
    IN  Rect(gl_x(g.bounds.min.x, sw), gl_y(g.bounds.min.y, sh),
             gl_x(g.bounds.max.x, sw), gl_y(g.bounds.max.y, sh))

\* lines 90-99
gl_rect_of(g) ==
    LET sw == g.screen_dimensions[1]
        sh == g.screen_dimensions[2]
    IN  Rect(gl_x(R(g.pixel_coords.min.x), sw), gl_y(R(g.pixel_coords.min.y), sh),
             gl_x(R(g.pixel_coords.max.x), sw), gl_y(R(g.pixel_coords.max.y), sh))

\* lines 102-106: the right edge
ClampMaxX(s, b) ==
    IF RGt(s.gl.max.x, b.max.x)
    THEN LET old_width == width(s.gl)
             gl1 == [s.gl EXCEPT !.max.x = b.max.x]
         IN  [gl |-> gl1,
              tex |-> [s.tex EXCEPT !.max.x =
                         RAdd(s.tex.min.x,
                              RDiv(RMul(width(s.tex), width(gl1)), old_width))]]
    ELSE s

\* lines 107-111: the left edge
ClampMinX(s, b) ==
    IF RLt(s.gl.min.x, b.min.x)
    THEN LET old_width == width(s.gl)
             gl1 == [s.gl EXCEPT !.min.x = b.min.x]
         IN  [gl |-> gl1,
              tex |-> [s.tex EXCEPT !.min.x =
                         RSub(s.tex.max.x,
                              RDiv(RMul(width(s.tex), width(gl1)), old_width))]]
    ELSE s

\* the flipped comparison a y edge would get if the gl axis were not flipped
ClampMaxYUnflipped(s, b) ==
    IF RGt(s.gl.max.y, b.max.y)
    THEN LET old_height == height(s.gl)
             gl1 == [s.gl EXCEPT !.max.y = b.max.y]
         IN  [gl |-> gl1,
              tex |-> [s.tex EXCEPT !.max.y =
                         RAdd(s.tex.min.y,
                              RDiv(RMul(height(s.tex), height(gl1)), old_height))]]
    ELSE s

\* the bottom edge clamped with the texture edge left where it was
ClampMaxYCropOnly(s, b) ==
    IF RLt(s.gl.max.y, b.max.y)
    THEN [gl |-> [s.gl EXCEPT !.max.y = b.max.y], tex |-> s.tex]
    ELSE s

\* lines 114-118: the bottom edge (gl y is flipped, so "<")
ClampMaxY(s, b) ==
    IF RLt(s.gl.max.y, b.max.y)
    THEN LET old_height == height(s.gl)
             gl1 == [s.gl EXCEPT !.max.y = b.max.y]
         IN  [gl |-> gl1,
              tex |-> [s.tex EXCEPT !.max.y =
                         RAdd(s.tex.min.y,
                              RDiv(RMul(height(s.tex), height(gl1)), old_height))]]
    ELSE s

\* lines 119-123: the top edge (gl y is flipped, so ">")
ClampMinY(s, b) ==
    IF RGt(s.gl.min.y, b.min.y)
    THEN LET old_height == height(s.gl)
             gl1 == [s.gl EXCEPT !.min.y = b.min.y]
         IN  [gl |-> gl1,
              tex |-> [s.tex EXCEPT !.min.y =
                         RSub(s.tex.max.y,
                              RDiv(RMul(height(s.tex), height(gl1)), old_height))]]
    ELSE s

\* lines 69-132
to_vertex(g) ==
    LET b  == gl_bounds_of(g)
        s0 == [gl |-> gl_rect_of(g), tex |-> g.tex_coords]
        s1 == ClampMaxX(s0, b)
        s2 == ClampMinX(s1, b)
        s3 == ClampMaxY(s2, b)
        s4 == ClampMinY(s3, b)
    IN  [left_top         |-> <<s4.gl.min.x, s4.gl.max.y, g.z>>,
         right_bottom     |-> <<s4.gl.max.x, s4.gl.min.y>>,
         tex_left_top     |-> <<s4.tex.min.x, s4.tex.max.y>>,
         tex_right_bottom |-> <<s4.tex.max.x, s4.tex.min.y>>,
         color            |-> g.color]

---------------------------------------------------------------------------
(* Values of the renderer.                                                 *)

Sizes == 1..MaxDim
\* (width, height) of an atlas
Dims == Sizes \X Sizes
Rects == 1..MaxRects

\* glyph_brush's default initial_cache_size, one unit wide and high
DefaultCacheSize == <<1, 1>>

\* facade.get_framebuffer_dimensions(), lib.rs:325
ScreenDims == <<4, 4>>

\* DrawParameters of GlyphBrush::new, lib.rs:206-214
NewParams ==
    [depth_test |-> "IfLess", depth_write |-> TRUE, blend |-> "alpha_blending"]

\* DrawParameters of GlyphBrushBuilder::using_fonts, builder.rs:69-72
BuilderDefaultParams ==
    [depth_test |-> "Overwrite", depth_write |-> FALSE, blend |-> "alpha_blending"]

\* draw states a caller may hand to GlyphBrushBuilder::params
CallerParams ==
    {[depth_test |-> "Overwrite", depth_write |-> FALSE, blend |-> "always_replace"]}

\* Texture2d::empty(facade, w, h): nothing uploaded yet
NewTexture(d) == [dims |-> d, data |-> {}]

\* update_texture, lib.rs:58-66: tex.write of every region the engine uploads
update_texture(tex, uploads) == [tex EXCEPT !.data = @ \cup uploads]

\* positioned glyphs the engine lays out for the sections of a frame
SampleGlyphs ==
    {[tex_coords |-> Rect(R(0), R(0), RHalf, RHalf),
      pixel_coords |-> Rect(0, 0, 2, 2),
      bounds |-> Rect(R(0), R(0), R(4), R(4)),
      screen_dimensions |-> ScreenDims, color |-> "black", z |-> R(0)],
     [tex_coords |-> Rect(RHalf, R(0), R(1), RHalf),
      pixel_coords |-> Rect(3, 1, 5, 3),
      bounds |-> Rect(R(0), R(0), R(4), R(4)),
      screen_dimensions |-> ScreenDims, color |-> "black", z |-> R(0)]}

GlyphLists == UNION {[1..n -> SampleGlyphs] : n \in 0..MaxVerts}

\* the Vec the engine builds by calling to_vertex on every glyph, lib.rs:343
VertexLists == {[i \in DOMAIN gs |-> to_vertex(gs[i])] : gs \in GlyphLists}

\* Result<BrushAction, BrushError> of process_queued, lib.rs:346-353, 361-366
Answers ==
    {[kind |-> "Draw", verts |-> vs] : vs \in VertexLists}
    \cup {[kind |-> "ReDraw"]}
    \cup {[kind |-> "TextureTooSmall", suggested |-> d] : d \in Dims}

IsOk(a) == a.kind \in {"Draw", "ReDraw"}

---------------------------------------------------------------------------
(* Construction.                                                           *)

Init ==
    /\ pc = "start"
    /\ builder = Null
    /\ engine = Null
    /\ texture = Null
    /\ params = Null
    /\ verts = <<>>
    /\ brush_action = NoAction
    /\ vertex_buffer = <<>>
    /\ drawCalls = 0
    /\ drawn = NoDraw
    /\ retries = 0
    /\ lastSuggested = NoDims
    /\ noQueueSince = FALSE
    /\ fault = None
    /\ uploaded = {}
    /\ override = Null
    /\ glyph = Null
    /\ vertex = Null

\* an unwrap() of a failed backend operation panics
Panic(what) ==
    /\ pc' = "panicked"
    /\ fault' = what

\* glyph_brush::GlyphBrushBuilder::using_fonts(fonts).build(), lib.rs:203
EngineBuilt(nfonts, cache) == [dims |-> cache, fonts |-> nfonts, queued |-> FALSE]

\* GlyphBrush::new, lib.rs:202-226
new ==
    /\ pc = "start"
    /\ \/ \E nfonts \in 1..MaxFonts :
            /\ engine' = EngineBuilt(nfonts, DefaultCacheSize)
            \* let (twidth, theight) = glyph_brush.texture_dimensions()
            /\ texture' = NewTexture(engine'.dims)
            /\ params' = NewParams
            /\ verts' = <<>>
            /\ pc' = "idle"
            /\ UNCHANGED fault
       \/ \E what \in {"program", "texture"} :
            /\ Panic(what)
            /\ UNCHANGED <<engine, texture, params, verts>>
    /\ UNCHANGED <<builder, brush_action, vertex_buffer, drawCalls, drawn,
                   retries, lastSuggested, noQueueSince, uploaded, override, glyph, vertex>>

\* GlyphBrushBuilder::using_fonts (using_font, using_font_bytes and
\* using_fonts_bytes end here), builder.rs:40-74
using_fonts ==
    /\ pc = "start"
    /\ \E nfonts \in 1..MaxFonts :
         builder' = [inner |-> [fonts |-> nfonts,
                                initial_cache_size |-> DefaultCacheSize,
                                section_hasher |-> "default"],
                     params |-> BuilderDefaultParams]
    /\ pc' = "builder"
    /\ UNCHANGED <<engine, texture, params, verts, brush_action, vertex_buffer,
                   drawCalls, drawn, retries, lastSuggested, noQueueSince,
                   fault, uploaded, override, glyph, vertex>>

\* initial_cache_size of delegate_glyph_brush_builder_fns!(inner), builder.rs:78
initial_cache_size ==
    /\ pc = "builder"
    /\ \E d \in Dims :
         builder' = [builder EXCEPT !.inner.initial_cache_size = d]
    /\ UNCHANGED <<pc, engine, texture, params, verts, brush_action,
                   vertex_buffer, drawCalls, drawn, retries, lastSuggested,
                   noQueueSince, fault, uploaded, override, glyph, vertex>>

\* a section_hasher that rebuilds the builder with the default draw state
section_hasher_default_params ==
    /\ pc = "builder"
    /\ builder' = [inner |-> [builder.inner EXCEPT !.section_hasher = "custom"],
                   params |-> BuilderDefaultParams]
    /\ UNCHANGED <<pc, engine, texture, params, verts, brush_action,
                   vertex_buffer, drawCalls, drawn, retries, lastSuggested,
                   noQueueSince, fault, uploaded, override, glyph, vertex>>

\* GlyphBrushBuilder::section_hasher, builder.rs:151-156
section_hasher ==
    /\ pc = "builder"
    /\ builder' = [inner |-> [builder.inner EXCEPT !.section_hasher = "custom"],
                   params |-> builder.params]
    /\ UNCHANGED <<pc, engine, texture, params, verts, brush_action,
                   vertex_buffer, drawCalls, drawn, retries, lastSuggested,
                   noQueueSince, fault, uploaded, override, glyph, vertex>>

\* GlyphBrushBuilder::params, builder.rs:158-163
builder_params ==
    /\ pc = "builder"
    /\ \E p \in CallerParams :
         /\ builder' = [inner |-> builder.inner, params |-> p]
         /\ override' = p
    /\ UNCHANGED <<pc, engine, texture, params, verts, brush_action,
                   vertex_buffer, drawCalls, drawn, retries, lastSuggested,
                   noQueueSince, fault, uploaded, glyph, vertex>>

\* a build that allocates the atlas with the default size whatever was configured
BuildTextureDefaultSize(b) == NewTexture(DefaultCacheSize)

\* Texture2d::empty(facade, cache_width, cache_height), builder.rs:167, 174
BuildTexture(b) == NewTexture(b.inner.initial_cache_size)

\* GlyphBrushBuilder::build, builder.rs:166-193
build ==
    /\ pc = "builder"
    /\ \/ /\ engine' = EngineBuilt(builder.inner.fonts,
                                   builder.inner.initial_cache_size)
          /\ texture' = BuildTexture(builder)
          /\ params' = builder.params
          /\ verts' = <<>>
          /\ builder' = Null
          /\ pc' = "idle"
          /\ UNCHANGED fault
       \/ \E what \in {"program", "texture", "instances", "vertex_buffer"} :
            /\ Panic(what)
            /\ UNCHANGED <<builder, engine, texture, params, verts>>
    /\ UNCHANGED <<brush_action, vertex_buffer, drawCalls, drawn, retries,
                   lastSuggested, noQueueSince, uploaded, override, glyph, vertex>>

---------------------------------------------------------------------------
(* Calls that only reach the layout engine.                                *)

\* a queue that also drops the vertex data kept from the last frame
queue_clearing_verts ==
    /\ pc = "idle"
    /\ engine' = [engine EXCEPT !.queued = TRUE]
    /\ verts' = <<>>
    /\ UNCHANGED <<pc, builder, texture, params, brush_action,
                   vertex_buffer, drawCalls, drawn, retries, lastSuggested,
                   noQueueSince, fault, uploaded, override, glyph, vertex>>

\* GlyphBrush::queue, lib.rs:253-258
queue ==
    /\ pc = "idle"
    /\ engine' = [engine EXCEPT !.queued = TRUE]
    /\ UNCHANGED <<pc, builder, texture, params, verts, brush_action,
                   vertex_buffer, drawCalls, drawn, retries, lastSuggested,
                   noQueueSince, fault, uploaded, override, glyph, vertex>>

\* GlyphBrush::queue_custom_layout, lib.rs:239-245
queue_custom_layout ==
    /\ pc = "idle"
    /\ engine' = [engine EXCEPT !.queued = TRUE]
    /\ UNCHANGED <<pc, builder, texture, params, verts, brush_action,
                   vertex_buffer, drawCalls, drawn, retries, lastSuggested,
                   noQueueSince, fault, uploaded, override, glyph, vertex>>

\* GlyphBrush::fonts, lib.rs:391-393: a read
fonts ==
    /\ pc = "idle"
    /\ UNCHANGED vars

\* GlyphBrush::add_font, lib.rs:437-439
add_font ==
    /\ pc = "idle"
    /\ engine.fonts < MaxFonts
    /\ engine' = [engine EXCEPT !.fonts = @ + 1]
    /\ UNCHANGED <<pc, builder, texture, params, verts, brush_action,
                   vertex_buffer, drawCalls, drawn, retries, lastSuggested,
                   noQueueSince, fault, uploaded, override, glyph, vertex>>

\* GlyphBrush::add_font_bytes, lib.rs:430-432
add_font_bytes ==
    /\ pc = "idle"
    /\ engine.fonts < MaxFonts
    /\ engine' = [engine EXCEPT !.fonts = @ + 1]
    /\ UNCHANGED <<pc, builder, texture, params, verts, brush_action,
                   vertex_buffer, drawCalls, drawn, retries, lastSuggested,
                   noQueueSince, fault, uploaded, override, glyph, vertex>>

---------------------------------------------------------------------------
(* GlyphBrush::draw_queued_with_transform, lib.rs:324-385; draw_queued     *)
(* (lib.rs:273-275) calls it with the identity matrix.                     *)

\* entry of the call with a caller-supplied transform, lib.rs:324-326
draw_queued_with_transform ==
    /\ pc = "idle"
    /\ pc' = "process"
    /\ brush_action' = NoAction
    /\ drawCalls' = 0
    /\ retries' = 0
    /\ lastSuggested' = NoDims
    /\ noQueueSince' = ~engine.queued
    /\ uploaded' = {}
    /\ UNCHANGED <<builder, engine, texture, params, verts, vertex_buffer,
                   drawn, fault, override, glyph, vertex>>

\* GlyphBrush::draw_queued, lib.rs:273-275:
\* self.draw_queued_with_transform(IDENTITY_MATRIX4, facade, draw_fn)
draw_queued == draw_queued_with_transform

\* self.glyph_brush.process_queued(screen_dims, |rect, tex_data| ..., to_vertex)
\* and the match on its result, lib.rs:336-349.  The engine uploads any
\* regions to the current texture and answers; an Ok answer consumes the queue.
ProcessQueued ==
    /\ pc = "process"
    /\ \E uploads \in SUBSET Rects, answer \in Answers :
         /\ texture' = update_texture(texture, uploads)
         /\ uploaded' = uploaded \cup uploads
         /\ brush_action' = answer
         /\ engine' = [engine EXCEPT !.queued = IF IsOk(answer) THEN FALSE ELSE @]
         /\ lastSuggested' = IF IsOk(answer) THEN lastSuggested
                             ELSE answer.suggested
         /\ pc' = IF IsOk(answer) THEN "store" ELSE "realloc"
    /\ UNCHANGED <<builder, params, verts, vertex_buffer, drawCalls, drawn,
                   retries, noQueueSince, fault, override, glyph, vertex>>

\* a reallocation with width and height swapped
ReallocatedSwapped(suggested) == NewTexture(<<suggested[2], suggested[1]>>)

\* a reallocation that carries the old atlas contents over
ReallocatedKeepingData(suggested) == [dims |-> suggested, data |-> texture.data]

\* Texture2d::empty(facade, nwidth, nheight), lib.rs:349-350
Reallocated(suggested) == NewTexture(suggested)

\* a failed allocation that keeps the old atlas and carries on
ReallocFailedSwallow ==
    /\ fault' = "texture"
    /\ pc' = "resize_texture"
    /\ UNCHANGED <<texture, retries, uploaded>>

\* Texture2d::empty(..).unwrap() on Err, lib.rs:350
ReallocFailed ==
    /\ Panic("texture")
    /\ UNCHANGED <<texture, retries, uploaded>>

\* self.texture = Texture2d::empty(facade, nwidth, nheight).unwrap(), lib.rs:348-350
Realloc ==
    /\ pc = "realloc"
    /\ \/ /\ texture' = Reallocated(brush_action.suggested)
          /\ uploaded' = {}
          /\ retries' = IF retries < MaxRetries THEN retries + 1 ELSE retries
          /\ pc' = "resize_texture"
          /\ UNCHANGED fault
       \/ ReallocFailed
    /\ UNCHANGED <<builder, engine, params, verts, brush_action, vertex_buffer,
                   drawCalls, drawn, lastSuggested, noQueueSince, override, glyph, vertex>>

\* a resize that never tells the engine
EngineNotResized(e, suggested) == e

\* self.glyph_brush.resize_texture(nwidth, nheight), lib.rs:351
EngineResized(e, suggested) == [e EXCEPT !.dims = suggested]

\* lib.rs:351, then the loop goes round, lib.rs:327
ResizeTexture ==
    /\ pc = "resize_texture"
    /\ engine' = EngineResized(engine, brush_action.suggested)
    /\ pc' = "process"
    /\ UNCHANGED <<builder, texture, params, verts, brush_action, vertex_buffer,
                   drawCalls, drawn, retries, lastSuggested, noQueueSince,
                   fault, uploaded, override, glyph, vertex>>

\* a store that extends the vertices of earlier frames instead of replacing them
StoredAppend(old, action) ==
    IF action.kind = "Draw" THEN old \o action.verts ELSE old

\* a redraw that forgets the stored vertices
StoredClearOnReDraw(old, action) ==
    IF action.kind = "Draw" THEN action.verts ELSE <<>>

\* match brush_action.unwrap() { Draw(verts) => self.verts = verts, ReDraw => {} },
\* lib.rs:361-366
Stored(old, action) ==
    IF action.kind = "Draw" THEN action.verts ELSE old

\* lib.rs:356-366 (the sampler borrows self.texture)
Store ==
    /\ pc = "store"
    /\ verts' = Stored(verts, brush_action)
    /\ pc' = "vertex_buffer"
    /\ UNCHANGED <<builder, engine, texture, params, brush_action, vertex_buffer, drawCalls,
                   drawn, retries, lastSuggested, noQueueSince, fault, uploaded, override, glyph,
                   vertex>>

\* glium::VertexBuffer::new(facade, &self.verts).unwrap(), lib.rs:368
VertexBufferNew ==
    /\ pc = "vertex_buffer"
    /\ \/ /\ vertex_buffer' = verts
          /\ pc' = "instances"
          /\ UNCHANGED fault
       \/ /\ Panic("vertex_buffer")
          /\ UNCHANGED vertex_buffer
    /\ UNCHANGED <<builder, engine, texture, params, verts, brush_action,
                   drawCalls, drawn, retries, lastSuggested, noQueueSince,
                   uploaded, override, glyph, vertex>>

\* glium::VertexBuffer::new(facade, &[InstanceVertex{ v : 0.0}; 4]).unwrap(),
\* lib.rs:374
InstancesNew ==
    /\ pc = "instances"
    /\ \/ /\ pc' = "draw"
          /\ UNCHANGED fault
       \/ Panic("instances")
    /\ UNCHANGED <<builder, engine, texture, params, verts, brush_action,
                   vertex_buffer, drawCalls, drawn, retries, lastSuggested,
                   noQueueSince, uploaded, override, glyph, vertex>>

\* a draw that is skipped when the engine said nothing changed
IssuedSkipEmpty(n, buf) == IF buf = <<>> THEN n ELSE n + 1

\* target.draw(...), lib.rs:383: one draw command
Issued(n, buf) == n + 1

\* let mut target = draw_fn(); target.draw((&instances,
\* vertex_buffer.per_instance().unwrap()), ...).unwrap(); target, lib.rs:382-384
DrawCall ==
    /\ pc = "draw"
    /\ \/ /\ drawCalls' = Issued(drawCalls, vertex_buffer)
          /\ drawn' = [done |-> TRUE, verts |-> vertex_buffer, params |-> params]
          /\ vertex_buffer' = <<>>
          /\ uploaded' = {}
          /\ pc' = "idle"
          /\ UNCHANGED fault
       \/ \E what \in {"per_instance", "draw"} :
            /\ Panic(what)
            /\ UNCHANGED <<vertex_buffer, drawCalls, drawn, uploaded>>
    /\ UNCHANGED <<builder, engine, texture, params, verts, brush_action,
                   retries, lastSuggested, noQueueSince, override, glyph, vertex>>

InDraw == pc \in {"process", "realloc", "resize_texture", "store",
                  "vertex_buffer", "instances", "draw"}

DrawStep ==
    \/ ProcessQueued
    \/ Realloc
    \/ ResizeTexture
    \/ Store
    \/ VertexBufferNew
    \/ InstancesNew
    \/ DrawCall

Next ==
    \/ new
    \/ using_fonts
    \/ initial_cache_size
    \/ section_hasher
    \/ builder_params
    \/ build
    \/ queue
    \/ queue_custom_layout
    \/ fonts
    \/ add_font
    \/ add_font_bytes
    \/ draw_queued
    \/ draw_queued_with_transform
    \/ DrawStep

Spec == Init /\ [][Next]_vars

\* a call, once entered, runs on: every step of the draw invocation is taken
FairSpec == Spec /\ WF_vars(DrawStep)

---------------------------------------------------------------------------
(* The vertex adapter on its own: every well-formed glyph of the bounded   *)
(* input space is handed to to_vertex once.  Rectangles have min < max on  *)
(* both axes (the engine emits no empty or inverted rectangle).            *)

Coords == 0..MaxCoord

IntRects ==
    {Rect(a, b, c, d) : <<a, b, c, d>> \in
        {q \in Coords \X Coords \X Coords \X Coords : q[1] < q[3] /\ q[2] < q[4]}}

RatRect(r) == Rect(R(r.min.x), R(r.min.y), R(r.max.x), R(r.max.y))

\* atlas rectangles in uv coordinates
TexSpans == {<<R(0), R(1)>>, <<RNorm(1, 4), RNorm(3, 4)>>}
TexRects == {Rect(sx[1], sy[1], sx[2], sy[2]) : <<sx, sy>> \in TexSpans \X TexSpans}

ScreenChoices == {<<MaxCoord, MaxCoord + 1>>, <<MaxCoord + 2, MaxCoord>>}

GlyphInputs ==
    {[tex_coords |-> t, pixel_coords |-> p, bounds |-> RatRect(b),
      screen_dimensions |-> sd, color |-> "black", z |-> R(1)] :
        <<t, p, b, sd>> \in TexRects \X IntRects \X IntRects \X ScreenChoices}

InitVertex ==
    /\ pc = "to_vertex"
    /\ glyph \in GlyphInputs
    /\ vertex = Null
    /\ builder = Null
    /\ engine = Null
    /\ texture = Null
    /\ params = Null
    /\ verts = <<>>
    /\ brush_action = NoAction
    /\ vertex_buffer = <<>>
    /\ drawCalls = 0
    /\ drawn = NoDraw
    /\ retries = 0
    /\ lastSuggested = NoDims
    /\ noQueueSince = FALSE
    /\ fault = None
    /\ uploaded = {}
    /\ override = Null

\* the engine's call of the to_vertex callback, lib.rs:343
ApplyToVertex ==
    /\ pc = "to_vertex"
    /\ vertex' = to_vertex(glyph)
    /\ pc' = "converted"
    /\ UNCHANGED <<builder, engine, texture, params, verts, brush_action,
                   vertex_buffer, drawCalls, drawn, retries, lastSuggested,
                   noQueueSince, fault, uploaded, override, glyph>>

VertexSpec == InitVertex /\ [][ApplyToVertex]_vars

---------------------------------------------------------------------------
(* Properties of the renderer, checked under Spec (FairSpec for liveness). *)

Built == engine # Null
TooSmall == brush_action.kind = "TextureTooSmall"
\* the step in which the draw command is issued and the invocation returns
DrawReturns == pc = "draw" /\ pc' = "idle"

\* C1: once the brush is constructed (new or build), at every point outside
\* the two statements of the resize arm, and so whenever the draw call is
\* issued, the atlas texture's dimensions equal the dimensions the layout
\* engine tracks.
C1_AtlasMatchesEngine ==
    pc \in {"idle", "process", "store", "vertex_buffer", "instances", "draw"}
        => texture.dims = engine.dims

\* a draw call is about to be issued after two reallocations, on an atlas
\* that is no longer of the initial size
C1_Witness ==
    /\ pc = "draw"
    /\ retries >= 2
    /\ texture.dims # DefaultCacheSize
    /\ texture.dims = engine.dims

\* C2: an invocation of draw_queued_with_transform in which no backend
\* operation fails issues exactly one draw call, and no draw call before the
\* resize-retry loop has ended; a TextureTooSmall answer is only ever held
\* inside the loop (or by an invocation that a failed reallocation ended),
\* never by an invocation that went on to draw or returned to its caller.
C2_ExactlyOneDraw ==
    /\ drawCalls \in {0, 1}
    /\ InDraw => drawCalls = 0
    /\ (pc = "idle" /\ brush_action # NoAction) => drawCalls = 1 /\ drawn.done
    /\ TooSmall => \/ pc \in {"realloc", "resize_texture", "process"}
                   \/ pc = "panicked" /\ fault = "texture"

\* an invocation that reallocated twice has returned with its one draw call
C2_Witness ==
    /\ pc = "idle"
    /\ retries >= 2
    /\ drawCalls = 1
    /\ fault = None

\* C3: on TextureTooSmall(suggested) the renderer first reallocates the
\* atlas to exactly the suggested size (the engine not yet told), then calls
\* resize_texture with the same size (the atlas untouched), then processes
\* again; an invocation that returns after at least one resize leaves the
\* atlas at the engine's last suggested size.
C3_ResizeOrder ==
    [][/\ (pc = "process" /\ pc' # "process" /\ ~IsOk(brush_action'))
            => pc' = "realloc"
       /\ (pc = "realloc" /\ pc' # "realloc")
            => \/ /\ pc' = "resize_texture"
                  /\ texture'.dims = brush_action.suggested
                  /\ engine' = engine
               \/ /\ pc' = "panicked"
                  /\ texture' = texture
                  /\ engine' = engine
       /\ (pc = "resize_texture" /\ pc' # "resize_texture")
            => /\ pc' = "process"
               /\ engine'.dims = brush_action.suggested
               /\ texture' = texture
       /\ (DrawReturns /\ retries > 0)
            => texture'.dims = lastSuggested]_vars

\* an invocation has returned after two resizes, with the atlas at the
\* last suggested, non-square size
C3_Witness ==
    /\ pc = "idle"
    /\ retries >= 2
    /\ drawCalls = 1
    /\ lastSuggested # NoDims
    /\ lastSuggested[1] # lastSuggested[2]
    /\ texture.dims = lastSuggested

\* C4: every draw invocation terminates, by returning or by a fatal error,
\* whatever the layout engine answers.
C4_DrawTerminates == (pc = "process") ~> (pc \in {"idle", "panicked"})

\* C5 (as amended): when a draw follows a draw with no queue call in
\* between and the engine answers it with ReDraw, the vertex data it draws
\* is identical to the vertex data of the draw before, and is the stored
\* vertex data.
C5_RedrawReusesVertices ==
    [][(DrawReturns /\ drawn.done /\ noQueueSince
            /\ brush_action.kind = "ReDraw")
         => drawn'.verts = drawn.verts /\ drawn'.verts = verts]_vars

\* a second draw with no queue call in between was answered ReDraw and drew
\* the non-empty vertex data an earlier draw had stored
C5_Witness ==
    /\ pc = "idle"
    /\ drawCalls = 1
    /\ noQueueSince
    /\ brush_action.kind = "ReDraw"
    /\ drawn.done
    /\ drawn.verts # <<>>
    /\ drawn.verts = verts

\* C5 (as stated): a draw that follows a draw with no queue call in between
\* takes the redraw path and draws the same vertex data as the first.
C5_Original ==
    [][(DrawReturns /\ drawn.done /\ noQueueSince)
         => drawn'.verts = drawn.verts]_vars

\* C8: a failed backend operation ends the invocation in a panic the
\* caller sees; no step of the invocation is taken after it, and the
\* invocation has issued no draw call.
C8_FailurePropagates ==
    fault # None => /\ pc = "panicked"
                    /\ drawCalls = 0
                    /\ ~ENABLED DrawStep

\* the reallocation of the atlas failed in the resize arm of a draw
C8_Witness ==
    /\ fault = "texture"
    /\ pc = "panicked"
    /\ Built
    /\ brush_action.kind = "TextureTooSmall"

\* C9: the calls that are not a draw (queue, queue_custom_layout, fonts,
\* add_font, add_font_bytes: the steps from idle to idle) leave the atlas
\* texture and the stored vertex data unchanged.
C9_OnlyDrawMutates ==
    [][(pc = "idle" /\ pc' = "idle") => texture' = texture /\ verts' = verts]_vars

\* sections were queued and a font added on a brush whose atlas holds
\* uploads and whose stored vertex data is not empty
C9_Witness ==
    /\ pc = "idle"
    /\ engine.queued
    /\ engine.fonts > 1
    /\ texture.data # {}
    /\ verts # <<>>

\* C10: neither the width nor the height of the atlas texture ever becomes
\* smaller than it was.
C10_NeverShrinks ==
    [][(texture # Null /\ texture' # Null)
         => /\ texture'.dims[1] >= texture.dims[1]
            /\ texture'.dims[2] >= texture.dims[2]]_vars

---------------------------------------------------------------------------
(* Properties of the vertex adapter, checked under VertexSpec.             *)

Converted == pc = "converted"

\* the pixel -> gl map written out: x -> (2x - w) / w, y -> (h - 2y) / h
NdcX(x, g) == RDiv(RSub(RMul(R(2), x), R(g.screen_dimensions[1])),
                   R(g.screen_dimensions[1]))
NdcY(y, g) == RDiv(RSub(R(g.screen_dimensions[2]), RMul(R(2), y)),
                   R(g.screen_dimensions[2]))

\* the four ways a pixel rectangle can stick out of its clip bounds
OverRight(g) == RGt(R(g.pixel_coords.max.x), g.bounds.max.x)
OverLeft(g) == RLt(R(g.pixel_coords.min.x), g.bounds.min.x)
OverBottom(g) == RGt(R(g.pixel_coords.max.y), g.bounds.max.y)
OverTop(g) == RLt(R(g.pixel_coords.min.y), g.bounds.min.y)
OverCount(g) ==
    Cardinality({e \in {"right", "left", "bottom", "top"} :
        \/ e = "right" /\ OverRight(g)
        \/ e = "left" /\ OverLeft(g)
        \/ e = "bottom" /\ OverBottom(g)
        \/ e = "top" /\ OverTop(g)})
Inside(g) == OverCount(g) = 0

\* the emitted texture rectangle is the input's
TexUnchanged(g, v) ==
    /\ v.tex_left_top = <<g.tex_coords.min.x, g.tex_coords.max.y>>
    /\ v.tex_right_bottom = <<g.tex_coords.max.x, g.tex_coords.min.y>>

PixelW(g) == R(g.pixel_coords.max.x - g.pixel_coords.min.x)
PixelH(g) == R(g.pixel_coords.max.y - g.pixel_coords.min.y)
\* what to_vertex emits when it clamps nothing
UnclampedLeftTop(g) == <<NdcX(R(g.pixel_coords.min.x), g),
                         NdcY(R(g.pixel_coords.max.y), g), g.z>>
UnclampedRightBottom(g) == <<NdcX(R(g.pixel_coords.max.x), g),
                             NdcY(R(g.pixel_coords.min.y), g)>>

\* the right edge alone is clamped and the texture's right edge follows
RightClamped(g, v) ==
    /\ v.right_bottom[1] = NdcX(g.bounds.max.x, g)
    /\ RMul(RSub(v.tex_right_bottom[1], g.tex_coords.min.x), PixelW(g))
         = RMul(width(g.tex_coords),
                RSub(g.bounds.max.x, R(g.pixel_coords.min.x)))
    /\ v.left_top = UnclampedLeftTop(g)
    /\ v.right_bottom[2] = UnclampedRightBottom(g)[2]
    /\ v.tex_left_top = <<g.tex_coords.min.x, g.tex_coords.max.y>>
    /\ v.tex_right_bottom[2] = g.tex_coords.min.y

\* the left edge alone is clamped and the texture's left edge follows
LeftClamped(g, v) ==
    /\ v.left_top[1] = NdcX(g.bounds.min.x, g)
    /\ RMul(RSub(g.tex_coords.max.x, v.tex_left_top[1]), PixelW(g))
         = RMul(width(g.tex_coords),
                RSub(R(g.pixel_coords.max.x), g.bounds.min.x))
    /\ v.left_top[2] = UnclampedLeftTop(g)[2]
    /\ v.left_top[3] = g.z
    /\ v.right_bottom = UnclampedRightBottom(g)
    /\ v.tex_left_top[2] = g.tex_coords.max.y
    /\ v.tex_right_bottom = <<g.tex_coords.max.x, g.tex_coords.min.y>>

\* the bottom edge (max y) alone is clamped and the texture's max y follows
BottomClamped(g, v) ==
    /\ v.left_top[2] = NdcY(g.bounds.max.y, g)
    /\ RMul(RSub(v.tex_left_top[2], g.tex_coords.min.y), PixelH(g))
         = RMul(height(g.tex_coords),
                RSub(g.bounds.max.y, R(g.pixel_coords.min.y)))
    /\ v.left_top[1] = UnclampedLeftTop(g)[1]
    /\ v.left_top[3] = g.z
    /\ v.right_bottom = UnclampedRightBottom(g)
    /\ v.tex_left_top[1] = g.tex_coords.min.x
    /\ v.tex_right_bottom = <<g.tex_coords.max.x, g.tex_coords.min.y>>

\* the top edge (min y) alone is clamped and the texture's min y follows
TopClamped(g, v) ==
    /\ v.right_bottom[2] = NdcY(g.bounds.min.y, g)
    /\ RMul(RSub(g.tex_coords.max.y, v.tex_right_bottom[2]), PixelH(g))
         = RMul(height(g.tex_coords),
                RSub(R(g.pixel_coords.max.y), g.bounds.min.y))
    /\ v.left_top = UnclampedLeftTop(g)
    /\ v.right_bottom[1] = UnclampedRightBottom(g)[1]
    /\ v.tex_left_top = <<g.tex_coords.min.x, g.tex_coords.max.y>>
    /\ v.tex_right_bottom[1] = g.tex_coords.max.x

\* C7: for a glyph whose pixel rectangle exceeds its clip bounds on exactly
\* one edge, to_vertex puts that edge on the bound and moves the matching
\* texture edge so that new_tex_extent * old_extent = old_tex_extent *
\* new_extent along that axis; the other three edges of both rectangles are
\* what they are without clamping.
C7_OneEdgeClampKeepsRatio ==
    (Converted /\ OverCount(glyph) = 1) =>
        /\ OverRight(glyph) => RightClamped(glyph, vertex)
        /\ OverLeft(glyph) => LeftClamped(glyph, vertex)
        /\ OverBottom(glyph) => BottomClamped(glyph, vertex)
        /\ OverTop(glyph) => TopClamped(glyph, vertex)

\* a glyph sticking out of the bottom of its clip bounds only, and still
\* partly inside them, has been converted and its texture edge has moved
C7_Witness ==
    /\ Converted
    /\ OverCount(glyph) = 1
    /\ OverBottom(glyph)
    /\ RLt(R(glyph.pixel_coords.min.y), glyph.bounds.max.y)
    /\ vertex.tex_left_top[2] # glyph.tex_coords.max.y
    /\ BottomClamped(glyph, vertex)

---------------------------------------------------------------------------
(* Stored vertex data and instance count, checked under Spec.              *)

\* the steps of an invocation after the engine's answer has been stored
AfterStore == pc \in {"vertex_buffer", "instances", "draw"}

\* C11: when the layout engine answers with Draw(verts), the stored vertex
\* data becomes exactly that list (nothing of earlier frames remains), the
\* per-instance buffer of that invocation is built from it, and the draw call
\* of that invocation has one instance per entry of it.
C11_DrawReplacesVertices ==
    /\ (AfterStore /\ brush_action.kind = "Draw") => verts = brush_action.verts
    /\ (pc \in {"instances", "draw"} /\ brush_action.kind = "Draw")
         => vertex_buffer = brush_action.verts
    /\ (pc = "idle" /\ drawn.done /\ brush_action.kind = "Draw")
         => /\ verts = brush_action.verts
            /\ drawn.verts = verts
            /\ Len(drawn.verts) = Len(brush_action.verts)

\* a draw call has returned after the engine answered Draw with a non-empty
\* list, in an invocation that also reallocated the atlas
C11_Witness ==
    /\ pc = "idle"
    /\ drawn.done
    /\ brush_action.kind = "Draw"
    /\ brush_action.verts # <<>>
    /\ Len(drawn.verts) = Len(brush_action.verts)
    /\ retries > 0

---------------------------------------------------------------------------
(* The draw state of a built renderer, checked under Spec.                 *)

Building == pc = "builder"

Overridden == override # Null

\* a step of section_hasher that installs the custom hasher
SectionHasherStep ==
    /\ Building
    /\ pc' = "builder"
    /\ builder'.inner.section_hasher # builder.inner.section_hasher

\* C12: without a draw-state override the builder and the renderer built from
\* it (or by GlyphBrush::new) have alpha blending enabled; a draw state given
\* through params is the builder's draw state from then on and the draw state
\* of the built renderer, which every draw call uses; section_hasher leaves
\* the accumulated draw state as it was.
C12_DrawStateFromBuilder ==
    /\ [](/\ (Building /\ ~Overridden)
              => builder.params.blend = "alpha_blending"
          /\ (Building /\ Overridden) => builder.params = override
          /\ (Built /\ ~Overridden) => params.blend = "alpha_blending"
          /\ (Built /\ Overridden) => params = override
          /\ drawn.done => drawn.params = params)
    /\ [][SectionHasherStep => builder'.params = builder.params]_vars

\* a renderer built with an overriding draw state has issued a draw call
\* with it
C12_Witness ==
    /\ pc = "idle"
    /\ Overridden
    /\ params = override
    /\ params.blend # "alpha_blending"
    /\ drawn.done
    /\ drawn.params = override

---------------------------------------------------------------------------
(* Atlas uploads across reallocations, checked under Spec.                 *)

\* the atlas has been reallocated in the current invocation
ReallocatedInDraw == InDraw /\ retries > 0

\* C13: within a draw invocation every upload of a process_queued attempt is
\* in the texture that was current during the attempt; a reallocation starts
\* from an empty texture, so the uploads of the attempt that ended with
\* TextureTooSmall are gone and from then on (in particular when the draw call
\* samples it) the texture holds only uploads of attempts after the last
\* reallocation; and the engine tracks the new size before the next attempt.
C13_UploadsFollowTexture ==
    /\ InDraw => uploaded \subseteq texture.data
    /\ pc = "resize_texture" => texture.data = {}
    /\ ReallocatedInDraw => texture.data = uploaded
    /\ (pc = "process" /\ retries > 0)
         => /\ engine.dims = texture.dims
            /\ engine.dims = lastSuggested

\* the draw call is about to sample a texture that was reallocated in this
\* invocation and repopulated by a later attempt
C13_Witness ==
    /\ pc = "draw"
    /\ retries > 0
    /\ uploaded # {}
    /\ texture.data = uploaded
    /\ texture.dims = lastSuggested
====
